---------------------------- MODULE Spec2Model ----------------------------
(***************************************************************************)
(* Calendar / event REST API (Express + Mongoose): the credential          *)
(* validator, the auth flows, the calendar and event routes and the day    *)
(* lookup, as state machines over the document stores.                     *)
(*                                                                         *)
(* Strings that the code inspects character by character (emails,          *)
(* passwords, titles) are sequences of one-character strings.  Instants    *)
(* are milliseconds since the epoch.  A request is a task in a slot: it    *)
(* is begun with its inputs, takes one step per store operation it awaits  *)
(* (several requests interleave at those points) and ends with a response. *)
(***************************************************************************)
EXTENDS Integers, Sequences, FiniteSets, TLC

VARIABLES
    users,      \* Identity store: sequence of user documents, insertion order
    blacklist,  \* Revocation store: set of tokens recorded by logout
    now,        \* wall clock of the server, in seconds
    revoked,    \* history: refresh tokens whose logout has answered success
    calendars,  \* Calendar store: calendar id -> document
    events,     \* Event store: event id -> document
    createdBy,  \* history: what each calendar and each event was created with
    tasks,      \* requests in flight: slot -> request record
    call        \* the invocation of a pure function: inputs and result

vars == <<users, blacklist, now, revoked, calendars, events, createdBy, tasks, call>>

-----------------------------------------------------------------------------
(* Bounds *)

MaxEmailLen == 5
MaxSuffixLen == 4
MaxDay == 3
MaxDocs == 3

-----------------------------------------------------------------------------
(* Characters and strings *)

Upper == {"A", "Z"}
Lower == {"a", "z"}
Digit == {"1"}
Special == {"!", "@", "#", "$", "%", "^", "&", "*", "(", ")", ",", ".", "?", ":", "{", "}", "|", "<", ">"}
Whitespace == {" "}

SeqsUpTo(S, n) == UNION {[1..k -> S] : k \in 0..n}

\* regex.test(s) for a character class: some character of s is in the class
HasCharIn(s, class) == \E i \in 1..Len(s) : s[i] \in class

\* [^\s@]
EmailAtom(c) == c \notin Whitespace /\ c # "@"

\* /^[^\s@]+@[^\s@]+\.[^\s@]+$/.test(s)
emailRegexTest(s) ==
    \E i, j \in 1..Len(s) :
        /\ 1 < i /\ i + 1 < j /\ j < Len(s)
        /\ s[i] = "@"
        /\ s[j] = "."
        /\ \A k \in (1..Len(s)) \ {i} : EmailAtom(s[k])

NoError == "null"

minLength == 8

\* the uppercase and lowercase rules tested in the other order
validateUserCredentials_lowerFirst(email, password) ==
    IF ~emailRegexTest(email) THEN "Invalid email format"
    ELSE IF Len(password) < minLength THEN "Password must be at least 8 characters long"
    ELSE IF ~HasCharIn(password, Lower) THEN "Password must contain at least one lowercase letter"
    ELSE IF ~HasCharIn(password, Upper) THEN "Password must contain at least one uppercase letter"
    ELSE IF ~HasCharIn(password, Digit) THEN "Password must contain at least one digit"
    ELSE IF ~HasCharIn(password, Special) THEN "Password must contain at least one special character"
    ELSE NoError

validateUserCredentials(email, password) ==
    IF ~emailRegexTest(email) THEN "Invalid email format"
    ELSE IF Len(password) < minLength THEN "Password must be at least 8 characters long"
    ELSE IF ~HasCharIn(password, Upper) THEN "Password must contain at least one uppercase letter"
    ELSE IF ~HasCharIn(password, Lower) THEN "Password must contain at least one lowercase letter"
    ELSE IF ~HasCharIn(password, Digit) THEN "Password must contain at least one digit"
    ELSE IF ~HasCharIn(password, Special) THEN "Password must contain at least one special character"
    ELSE NoError

-----------------------------------------------------------------------------
(* Stores and requests at rest *)

\* two requests can be in flight at a time
Slots == {1, 2}

EmptyStore == <<>>
NoHistory == [calendar |-> <<>>, event |-> <<>>]
Idle == [op |-> "none", pc |-> "idle"]
NoCall == [fn |-> "none"]

-----------------------------------------------------------------------------
(* The credential validator on its own *)

EmailAlphabet == {"a", "@", ".", " "}
PasswordAlphabet == {"A", "a", "1", "!", "_"}
Pad == <<"_", "_", "_", "_">>

AllEmails == SeqsUpTo(EmailAlphabet, MaxEmailLen)
AllPasswords == {pad \o s : pad \in {<<>>, Pad}, s \in SeqsUpTo(PasswordAlphabet, MaxSuffixLen)}

GoodEmail == <<"a", "@", "a", ".", "a">>
BadEmail == <<"a", "@", "a">>
SampleEmails == {GoodEmail, BadEmail}
SamplePasswords ==
    { Pad \o <<"A", "a", "1", "!">>, <<"A", "a", "1", "!">>, Pad \o <<"a", "a", "1", "!">>,
      Pad \o <<"A", "A", "1", "!">>, Pad \o <<"A", "a", "_", "!">>, Pad \o <<"A", "a", "1", "_">>,
      Pad \o Pad, <<>> }

ValidateInputs == (AllEmails \X SamplePasswords) \cup (SampleEmails \X AllPasswords)

InitValidate ==
    /\ users = <<>> /\ blacklist = {} /\ now = 0 /\ revoked = {}
    /\ calendars = EmptyStore /\ events = EmptyStore /\ createdBy = NoHistory
    /\ tasks = [r \in Slots |-> Idle]
    /\ \E in \in ValidateInputs :
          call = [fn |-> "validate", email |-> in[1], password |-> in[2], result |-> "pending"]

Validate ==
    /\ call.fn = "validate"
    /\ call.result = "pending"
    /\ call' = [call EXCEPT !.result = validateUserCredentials(call.email, call.password)]
    /\ UNCHANGED <<users, blacklist, now, revoked, calendars, events, createdBy, tasks>>

NextValidate == Validate

SpecValidate == InitValidate /\ [][NextValidate]_vars

\* The rules in the order the specification fixes, each with its message.
RuleTable(email, password) ==
    << [ok |-> emailRegexTest(email), msg |-> "Invalid email format"],
       [ok |-> Len(password) >= 8, msg |-> "Password must be at least 8 characters long"],
       [ok |-> \E i \in DOMAIN password : password[i] \in Upper,
        msg |-> "Password must contain at least one uppercase letter"],
       [ok |-> \E i \in DOMAIN password : password[i] \in Lower,
        msg |-> "Password must contain at least one lowercase letter"],
       [ok |-> \E i \in DOMAIN password : password[i] \in Digit,
        msg |-> "Password must contain at least one digit"],
       [ok |-> \E i \in DOMAIN password : password[i] \in Special,
        msg |-> "Password must contain at least one special character"] >>

FirstViolated(table) ==
    LET bad == {i \in DOMAIN table : ~table[i].ok}
    IN  IF bad = {} THEN NoError
        ELSE table[CHOOSE i \in bad : \A j \in bad : i <= j].msg

\* C8: the validator returns null exactly when every rule holds, and otherwise
\* the message of the first violated rule in the order email, length,
\* uppercase, lowercase, digit, special character.
C8_FirstViolatedRule ==
    (call.fn = "validate" /\ call.result # "pending") =>
        call.result = FirstViolated(RuleTable(call.email, call.password))

\* a password that breaks the uppercase rule and the digit rule at once
C8_Witness ==
    /\ call.fn = "validate"
    /\ call.result = "Password must contain at least one uppercase letter"
    /\ ~HasCharIn(call.password, Lower)
    /\ ~HasCharIn(call.password, Digit)

-----------------------------------------------------------------------------
(* Tokens and identities *)

AccessTtl == 604800
RefreshTtl == 2592000

\* jwt.sign(claims, secret, {expiresIn}): HMAC over the claims and the issue
\* second, so the same claims signed in the same second give the same token
Sign(user, secret, ttl, at) ==
    [secret |-> secret, id |-> user.id, email |-> user.email, name |-> user.name,
     role |-> user.role, iat |-> at, exp |-> at + ttl]

generateAccessToken(user, at) == Sign(user, "JWT_SECRET", AccessTtl, at)

\* signed with the access secret
generateRefreshToken_accessSecret(user, at) == Sign(user, "JWT_SECRET", RefreshTtl, at)

generateRefreshToken(user, at) == Sign(user, "JWT_REFRESH_SECRET", RefreshTtl, at)

\* values a token field or a request can hold instead of a signed token
BlankToken(kind) ==
    [secret |-> kind, id |-> 0, email |-> <<>>, name |-> "", role |-> "", iat |-> 0, exp |-> 0]
NullToken == BlankToken("null")
MissingToken == BlankToken("missing")
ForgedToken == BlankToken("forged")

\* any secret accepted
jwtVerify_anySecret(token, secret, at) == token.secret \in {"JWT_SECRET", "JWT_REFRESH_SECRET"} /\ at < token.exp

\* expiry not checked
jwtVerify_signatureOnly(token, secret, at) == token.secret = secret

\* jwt.verify(token, secret): the signature is by that secret and it has not expired
jwtVerify(token, secret, at) == token.secret = secret /\ at < token.exp

\* bcrypt.hash / bcrypt.compare
bcryptHash(password) == <<"bcrypt", password>>
bcryptCompare(password, hash) == hash = bcryptHash(password)

StrongPassword == Pad \o <<"A", "a", "1", "!">>
OtherPassword == Pad \o <<"Z", "z", "1", "?">>
WeakPassword == <<"p", "a", "s", "s", "w", "o", "r", "d">>

EmailA == <<"a", "@", "x", ".", "i", "o">>
EmailB == <<"b", "@", "x", ".", "i", "o">>

UserDoc(id, email, password, name, refreshToken) ==
    [id |-> id, email |-> email, password |-> bcryptHash(password), name |-> name,
     role |-> "user", refreshToken |-> refreshToken]

\* select("-password -refreshToken")
Sanitized(user) == [id |-> user.id, email |-> user.email, name |-> user.name, role |-> user.role]

\* an Identity store after two registrations, the second identity logged out
SeedUsers ==
    LET a == UserDoc(1, EmailA, StrongPassword, "A", NullToken)
        b == UserDoc(2, EmailB, OtherPassword, "B", NullToken)
    IN  << [a EXCEPT !.refreshToken = generateRefreshToken(a, 0)], b >>

UserIds == {1, 2}

-----------------------------------------------------------------------------
(* Day lookup: GET /event/events/day/:date *)

Hour == 60 * 60 * 1000
MsPerDay == 24 * Hour

\* offset of the server's local time from UTC, in milliseconds
TzOffsets == {0 - 5 * Hour, 0, 5 * Hour + Hour \div 2}

\* new Date("YYYY-MM-DD"): a date-only string is read as midnight UTC of that day
NewDate(date) == date.day * MsPerDay

\* Date.prototype.setHours(h, m, s, ms): the same local calendar day, at that local time
SetHours(t, offset, h, m, sec, ms) ==
    LET local == t + offset
        midnight == (local \div MsPerDay) * MsPerDay
    IN  midnight + ((h * 60 + m) * 60 + sec) * 1000 + ms - offset

\* Event.find({organizer, startTime: {$gte, $lt}})
EventFindDay(store, userId, startOfDay, endOfDay) ==
    {e \in DOMAIN store :
        /\ store[e].organizer = userId
        /\ store[e].startTime >= startOfDay
        /\ store[e].startTime < endOfDay}

EventsOfDay(store, userId, date, offset) ==
    IF ~date.valid THEN [status |-> 400, message |-> "Invalid date format", events |-> {}]
    ELSE LET providedDate == NewDate(date)
             startOfDay == SetHours(providedDate, offset, 0, 0, 0, 0)
             endOfDay == SetHours(startOfDay, offset, 23, 59, 59, 999)
             found == EventFindDay(store, userId, startOfDay, endOfDay)
         IN  IF found = {}
             THEN [status |-> 404, message |-> "No events found for the specified date", events |-> {}]
             ELSE [status |-> 200, message |-> "", events |-> found]

EventDoc(title, startTime, endTime, organizer, attendees) ==
    [title |-> title, description |-> <<>>, startTime |-> startTime, endTime |-> endTime,
     location |-> <<>>, organizer |-> organizer, attendees |-> attendees]

Dates == {[valid |-> TRUE, day |-> d] : d \in 1..MaxDay} \cup {[valid |-> FALSE, day |-> 0]}

\* instants around the local midnights of the offsets above
SampleClockTimes ==
    {5 * Hour - 60000, 5 * Hour, 18 * Hour + Hour \div 2, 24 * Hour - 60000, 24 * Hour - 1}
SampleInstants == {d * MsPerDay + t : d \in 0..MaxDay, t \in SampleClockTimes}
SampleEvents ==
    {EventDoc(<<"S">>, t, t + Hour, u, {}) : t \in SampleInstants, u \in UserIds}
SampleStores == {<<a>> : a \in SampleEvents} \cup {<<a, b>> : a \in SampleEvents, b \in SampleEvents}

InitDay ==
    /\ users = SeedUsers /\ blacklist = {} /\ now = 0 /\ revoked = {}
    /\ calendars = EmptyStore /\ createdBy = NoHistory
    /\ tasks = [r \in Slots |-> Idle]
    /\ events \in SampleStores
    /\ \E u \in UserIds, d \in Dates, z \in TzOffsets :
          call = [fn |-> "day", user |-> u, date |-> d, offset |-> z,
                  result |-> [status |-> 0, message |-> "pending", events |-> {}]]

DayLookup ==
    /\ call.fn = "day"
    /\ call.result.status = 0
    /\ call' = [call EXCEPT !.result = EventsOfDay(events, call.user, call.date, call.offset)]
    /\ UNCHANGED <<users, blacklist, now, revoked, calendars, events, createdBy, tasks>>

NextDay == DayLookup

SpecDay == InitDay /\ [][NextDay]_vars

\* 00:00:00.000 local time of day d, for a server at the given offset
LocalMidnight(d, offset) == d * MsPerDay - offset

\* C7: the day lookup returns only events organized by the requester that start
\* within the local day D, at any server time-zone offset; an event of the
\* previous local day is never returned.
C7_OnlyEventsOfLocalDay ==
    (call.fn = "day" /\ call.result.status = 200) =>
        \A e \in call.result.events :
            /\ events[e].organizer = call.user
            /\ LocalMidnight(call.date.day, call.offset) <= events[e].startTime
            /\ events[e].startTime < LocalMidnight(call.date.day + 1, call.offset)

-----------------------------------------------------------------------------
(* Requests and responses *)

NoResp ==
    [status |-> 0, message |-> "", accessToken |-> MissingToken, refreshToken |-> MissingToken]
Reply(status, message) == [NoResp EXCEPT !.status = status, !.message = message]
ReplyTokens(status, message, access, refresh) ==
    [status |-> status, message |-> message, accessToken |-> access, refreshToken |-> refresh]

AuthReq(op, email, password, token) ==
    [op |-> op, pc |-> "start", email |-> email, password |-> password, name |-> "N",
     token |-> token, local |-> <<>>, resp |-> NoResp]

Done(t, resp) == [t EXCEPT !.pc = "done", !.resp = resp]

\* res.send() ends the request in the step that reaches it; the finished task is
\* kept for one observation before its slot is free again
Quiet == \A r \in Slots : tasks[r].pc # "done"

Min(S) == CHOOSE i \in S : \A j \in S : i <= j

-----------------------------------------------------------------------------
(* Identity store operations *)

\* User.findOne({email}): position of the first match, 0 for null
UserFindOneByEmail(store, email) ==
    LET m == {i \in DOMAIN store : store[i].email = email}
    IN  IF m = {} THEN 0 ELSE Min(m)

\* any identity the token was signed for, whatever it has stored
UserFindOneByRefreshToken_bySubject(store, token) ==
    LET m == {i \in DOMAIN store : store[i].email = token.email}
    IN  IF m = {} THEN 0 ELSE Min(m)

\* User.findOne({refreshToken})
UserFindOneByRefreshToken(store, token) ==
    LET m == {i \in DOMAIN store : store[i].refreshToken = token}
    IN  IF m = {} THEN 0 ELSE Min(m)

\* no index on email
UserInsertRejected_never(store, doc) == FALSE

\* the unique index on email refuses a second document with the same email
UserInsertRejected(store, doc) == \E i \in DOMAIN store : store[i].email = doc.email

\* the save writes nothing
UserSaveRefreshToken_noop(store, id, token) == store

\* user.refreshToken = refreshToken; await user.save()
UserSaveRefreshToken(store, id, token) == [store EXCEPT ![id].refreshToken = token]

\* the update matches no document
UserUpdateOneClear_noop(store, token) == store

\* User.updateOne({refreshToken}, {refreshToken: null})
UserUpdateOneClear(store, token) ==
    LET i == UserFindOneByRefreshToken(store, token)
    IN  IF i = 0 THEN store ELSE [store EXCEPT ![i].refreshToken = NullToken]

-----------------------------------------------------------------------------
(* Auth routes *)

MaxNow == 1
MaxBlacklist == 1

Emails == {EmailA, EmailB}
RegisterPasswords == {StrongPassword, WeakPassword}
LoginPasswords == {StrongPassword, OtherPassword}

\* what a client puts in a request body as refreshToken: nothing, a token it made
\* up, or a refresh token signed for an identity at some time
RefreshTokens ==
    ({generateRefreshToken(users[i], t) : i \in DOMAIN users, t \in 0..now}
        \cup {users[i].refreshToken : i \in DOMAIN users}
        \cup {ForgedToken, MissingToken}) \ {NullToken}

\* ... or, by mistake, an access token
PresentableTokens == RefreshTokens \cup {generateAccessToken(users[i], now) : i \in DOMAIN users}

\* requests of the identity with this email that can write its refresh token
WritesSession(email) ==
    \E r \in Slots : tasks[r].op \in {"register", "login"}
                     /\ tasks[r].pc \notin {"idle", "done", "hung"}
                     /\ tasks[r].email = email

AuthFrame == UNCHANGED <<calendars, events, createdBy, call>>

\* a request is taken up by the first free slot
Free(r) == tasks[r].pc = "idle" /\ \A q \in Slots : q < r => tasks[q].pc # "idle"

registerExists == Reply(400, "User already registered")

\* POST /auth/register up to its first store read:
\* validateUserCredentials, then User.findOne({email})
Register(r, email, password) ==
    /\ Quiet /\ Free(r)
    /\ LET t == AuthReq("register", email, password, MissingToken)
           validationError == validateUserCredentials(email, password)
       IN  tasks' = [tasks EXCEPT ![r] =
                IF validationError # NoError THEN Done(t, Reply(400, validationError))
                ELSE IF UserFindOneByEmail(users, email) # 0 THEN Done(t, registerExists)
                ELSE [t EXCEPT !.pc = "hash"]]
    /\ revoked' = {t \in revoked : t.email # email}
    /\ UNCHANGED <<users, blacklist, now>> /\ AuthFrame

\* the bcrypt.hash callback: new User(...).save(), then the two tokens are signed.
\* A save that throws here is outside the route's try/catch: no response is sent.
RegisterInsert(r) ==
    /\ Quiet /\ tasks[r].op = "register" /\ tasks[r].pc = "hash"
    /\ LET t == tasks[r]
           newUser == [id |-> Len(users) + 1, email |-> t.email,
                       password |-> bcryptHash(t.password), name |-> t.name,
                       role |-> "user", refreshToken |-> NullToken]
       IN  IF UserInsertRejected(users, newUser)
           THEN /\ tasks' = [tasks EXCEPT ![r] = [t EXCEPT !.pc = "hung"]]
                /\ users' = users
           ELSE /\ users' = Append(users, newUser)
                /\ tasks' = [tasks EXCEPT ![r] =
                       [t EXCEPT !.pc = "saveToken",
                                 !.local = [id |-> newUser.id, saves |-> 1,
                                            accessToken |-> generateAccessToken(newUser, now),
                                            refreshToken |-> generateRefreshToken(newUser, now)]]]
    /\ UNCHANGED <<blacklist, now, revoked>> /\ AuthFrame

\* newUser.refreshToken = refreshToken; await newUser.save(); 201
RegisterSaveToken(r) ==
    /\ Quiet /\ tasks[r].op = "register" /\ tasks[r].pc = "saveToken"
    /\ LET t == tasks[r]
       IN  /\ users' = UserSaveRefreshToken(users, t.local.id, t.local.refreshToken)
           /\ tasks' = [tasks EXCEPT ![r] =
                  Done([t EXCEPT !.local.saves = @ + 1],
                       ReplyTokens(201, "Registration successful",
                                   t.local.accessToken, t.local.refreshToken))]
    /\ UNCHANGED <<blacklist, now, revoked>> /\ AuthFrame

loginNotFound == Reply(400, "Invalid credentials, user not found")

\* one message for both failures
loginIncorrect_sameMessage == Reply(400, "Invalid credentials, user not found")

loginIncorrect == Reply(400, "Invalid credentials, incorrect password")

\* the fields of the loaded document that the route goes on to use
Loaded(user) ==
    [id |-> user.id, email |-> user.email, name |-> user.name, role |-> user.role,
     password |-> user.password]

\* POST /auth/login up to its store read: User.findOne({email})
Login(r, email, password) ==
    /\ Quiet /\ Free(r)
    /\ LET t == AuthReq("login", email, password, MissingToken)
           i == UserFindOneByEmail(users, email)
       IN  tasks' = [tasks EXCEPT ![r] =
                IF i = 0 THEN Done(t, loginNotFound)
                ELSE [t EXCEPT !.pc = "compare", !.local = Loaded(users[i])]]
    /\ revoked' = {t \in revoked : t.email # email}
    /\ UNCHANGED <<users, blacklist, now>> /\ AuthFrame

\* bcrypt.compare, then the tokens are signed and user.save() stores the refresh token
LoginCompare(r) ==
    /\ Quiet /\ tasks[r].op = "login" /\ tasks[r].pc = "compare"
    /\ LET t == tasks[r]
           user == t.local
           isMatch == bcryptCompare(t.password, user.password)
           accessToken == generateAccessToken(user, now)
           refreshToken == generateRefreshToken(user, now)
       IN  IF ~isMatch
           THEN /\ tasks' = [tasks EXCEPT ![r] = Done(t, loginIncorrect)]
                /\ users' = users
           ELSE /\ users' = UserSaveRefreshToken(users, user.id, refreshToken)
                /\ tasks' = [tasks EXCEPT ![r] =
                       Done(t, ReplyTokens(200, "Login successful", accessToken, refreshToken))]
    /\ UNCHANGED <<blacklist, now, revoked>> /\ AuthFrame

invalidRefresh == Reply(403, "Invalid refresh token")

\* POST /auth/refresh-token
RefreshToken(r, token) ==
    /\ Quiet /\ Free(r)
    /\ token \in PresentableTokens
    /\ LET t == AuthReq("refresh", <<>>, <<>>, token)
           i == UserFindOneByRefreshToken(users, token)
       IN  tasks' = [tasks EXCEPT ![r] =
                IF token = MissingToken THEN Done(t, Reply(401, "Refresh token required"))
                ELSE IF i = 0 THEN Done(t, invalidRefresh)
                ELSE IF ~jwtVerify(token, "JWT_REFRESH_SECRET", now) THEN Done(t, invalidRefresh)
                ELSE Done(t, ReplyTokens(200, "", generateAccessToken(users[i], now), MissingToken))]
    /\ UNCHANGED <<users, blacklist, now, revoked>> /\ AuthFrame

\* POST /auth/logout up to its first store write: Blacklist.create({token, expiresAt})
Logout(r, token) ==
    /\ Quiet /\ Free(r)
    /\ token \in PresentableTokens
    /\ token = MissingToken \/ token \in blacklist \/ Cardinality(blacklist) < MaxBlacklist
    /\ LET t == AuthReq("logout", <<>>, <<>>, token)
       IN  IF token = MissingToken
           THEN /\ tasks' = [tasks EXCEPT ![r] = Done(t, Reply(401, "Refresh token required"))]
                /\ blacklist' = blacklist
           ELSE /\ blacklist' = blacklist \cup {token}
                /\ tasks' = [tasks EXCEPT ![r] = [t EXCEPT !.pc = "updateOne"]]
    /\ UNCHANGED <<users, now, revoked>> /\ AuthFrame

\* User.updateOne({refreshToken}, {refreshToken: null}); 200
LogoutUpdate(r) ==
    /\ Quiet /\ tasks[r].op = "logout" /\ tasks[r].pc = "updateOne"
    /\ LET t == tasks[r]
       IN  /\ users' = UserUpdateOneClear(users, t.token)
           /\ tasks' = [tasks EXCEPT ![r] = Done(t, Reply(200, "Logged out successfully"))]
           /\ revoked' = IF WritesSession(t.token.email) THEN revoked ELSE revoked \cup {t.token}
    /\ UNCHANGED <<blacklist, now>> /\ AuthFrame

\* the response has been sent, or the client has given up on a request that got none
Finish(r) ==
    /\ tasks[r].pc \in {"done", "hung"}
    /\ tasks' = [tasks EXCEPT ![r] = Idle]
    /\ UNCHANGED <<users, blacklist, now, revoked>> /\ AuthFrame

Tick ==
    /\ Quiet /\ now < MaxNow
    /\ now' = now + 1
    /\ UNCHANGED <<users, blacklist, revoked, tasks>> /\ AuthFrame

InitAuth ==
    /\ users = <<>> /\ blacklist = {} /\ now = 0 /\ revoked = {}
    /\ calendars = EmptyStore /\ events = EmptyStore /\ createdBy = NoHistory
    /\ tasks = [r \in Slots |-> Idle]
    /\ call = NoCall

NextAuth ==
    \/ \E r \in Slots, e \in Emails, p \in RegisterPasswords : Register(r, e, p)
    \/ \E r \in Slots, e \in Emails, p \in LoginPasswords : Login(r, e, p)
    \/ \E r \in Slots, t \in PresentableTokens : RefreshToken(r, t)
    \/ \E r \in Slots, t \in RefreshTokens : Logout(r, t)
    \/ \E r \in Slots :
          \/ RegisterInsert(r) \/ RegisterSaveToken(r)
          \/ LoginCompare(r)
          \/ LogoutUpdate(r)
          \/ Finish(r)
    \/ Tick

SpecAuth == InitAuth /\ [][NextAuth]_vars

-----------------------------------------------------------------------------
(* Auth routes with a store that can fail *)

\* catch (err): res.status(500).send({message, error: err.message})
ReplyError(message, error) ==
    [status |-> 500, message |-> message, error |-> error,
     accessToken |-> MissingToken, refreshToken |-> MissingToken]

\* The store operation request r is waiting for throws. In /login and /logout the
\* await is inside the route's try; in /register both saves are awaited inside the
\* bcrypt.hash callback, whose rejection no catch receives: no response is sent.
StoreFails(r) ==
    /\ Quiet /\ tasks[r].pc \in {"hash", "saveToken", "compare", "updateOne"}
    /\ tasks' = [tasks EXCEPT ![r] =
           CASE tasks[r].op = "register" -> [tasks[r] EXCEPT !.pc = "hung"]
             [] tasks[r].op = "login" ->
                    Done(tasks[r], ReplyError("Server error during login", "store failure"))
             [] tasks[r].op = "logout" ->
                    Done(tasks[r], ReplyError("Server error", "store failure"))]
    /\ UNCHANGED <<users, blacklist, now, revoked>> /\ AuthFrame

NextFault == NextAuth \/ \E r \in Slots : StoreFails(r)

SpecFault == InitAuth /\ [][NextFault]_vars

-----------------------------------------------------------------------------
(* Calendar and Event stores *)

Range(f) == {f[x] : x \in DOMAIN f}

\* every document removed
Without_all(store, id) == <<>>

\* the store after the document with this id is removed
Without(store, id) == [x \in (DOMAIN store) \ {id} |-> store[x]]

Answer(status, message, body) == [status |-> status, message |-> message, body |-> body]

\* a request that passed the auth gate: req.user.id, the path parameters, the body
ApiReq(op, user, cal, ev, body) ==
    [op |-> op, pc |-> "start", user |-> user, cal |-> cal, ev |-> ev, body |-> body,
     local |-> <<>>, resp |-> Answer(0, "", <<>>)]

CalendarJson(store, cid) ==
    [id |-> cid, name |-> store[cid].name, owner |-> store[cid].owner,
     events |-> store[cid].events]

\* the owner comparison left out
Owns_anyone(store, cid, userId) == cid \in DOMAIN store

\* !(!calendar || calendar.owner.toString() !== userId)
Owns(store, cid, userId) == cid \in DOMAIN store /\ store[cid].owner = userId

\* the owner filter left out
CalendarFind_all(store, userId) == {CalendarJson(store, c) : c \in DOMAIN store}

\* Calendar.find({owner: userId})
CalendarFind(store, userId) ==
    {CalendarJson(store, c) : c \in {x \in DOMAIN store : store[x].owner = userId}}

\* the owner filter left out
CalendarFindOneAndUpdate_anyOwner(store, cid, userId, name) ==
    IF cid \in DOMAIN store THEN [store EXCEPT ![cid].name = name] ELSE store

\* Calendar.findOneAndUpdate({_id, owner}, {name}, {new: true})
CalendarFindOneAndUpdate(store, cid, userId, name) ==
    IF Owns(store, cid, userId) THEN [store EXCEPT ![cid].name = name] ELSE store

\* the owner filter left out
CalendarFindOneAndDelete_anyOwner(store, cid, userId) == Without(store, cid)

\* Calendar.findOneAndDelete({_id, owner})
CalendarFindOneAndDelete(store, cid, userId) ==
    IF Owns(store, cid, userId) THEN Without(store, cid) ELSE store

\* the loaded array written back whole
CalendarSavePush_overwrite(store, cid, loaded, eid) ==
    [store EXCEPT ![cid].events = Append(loaded, eid)]

\* calendar.events.push(id); calendar.save(): Mongoose sends the push as an
\* atomic $push on the stored array
CalendarSavePush(store, cid, loaded, eid) ==
    [store EXCEPT ![cid].events = Append(@, eid)]

-----------------------------------------------------------------------------
(* Schema casts of the Event model *)

RECURSIVE TrimLeft(_)
TrimLeft(s) == IF s # <<>> /\ Head(s) \in Whitespace THEN TrimLeft(Tail(s)) ELSE s

RECURSIVE TrimRight(_)
TrimRight(s) ==
    IF s # <<>> /\ s[Len(s)] \in Whitespace THEN TrimRight(SubSeq(s, 1, Len(s) - 1)) ELSE s

\* trim: true
Trim(s) == TrimRight(TrimLeft(s))

\* A date in a request body is text in some format; the Date cast keeps the instant
CastDate(d) == d.ms

\* Date.prototype.toJSON: the ISO-8601 UTC form
DateJson(ms) == [fmt |-> "iso", ms |-> ms]

NoDate == [fmt |-> "missing", ms |-> 0]

\* required: true on title, startTime and endTime
EventValid(body) ==
    Trim(body.title) # <<>> /\ body.startTime # NoDate /\ body.endTime # NoDate

\* new Event({...}) with organizer = req.user.id
NewEvent(body, userId) ==
    EventDoc(Trim(body.title), CastDate(body.startTime), CastDate(body.endTime), userId,
             body.attendees)

\* the document as res.send() serializes it, references not populated
EventJson(store, eid) ==
    [id |-> eid, title |-> store[eid].title, description |-> store[eid].description,
     startTime |-> DateJson(store[eid].startTime), endTime |-> DateJson(store[eid].endTime),
     location |-> store[eid].location, organizer |-> store[eid].organizer,
     attendees |-> store[eid].attendees]

\* sensitive fields left in
Populate_unselected(identities, id) == identities[id]

\* populate(path, "-password -refreshToken")
Populate(identities, id) == Sanitized(identities[id])

\* Event.findById(eventId).populate("organizer", ...).populate("attendees", ...)
EventPopulated(store, identities, eid) ==
    [EventJson(store, eid) EXCEPT
        !.organizer = Populate(identities, store[eid].organizer),
        !.attendees = {Populate(identities, a) : a \in store[eid].attendees \cap DOMAIN identities}]

-----------------------------------------------------------------------------
(* Calendar routes *)

CalendarNames == {"Work", "Home"}
NewCalendarNames == {"Work"}
CalendarIds == 1..(MaxDocs - 1)
EventIds == 1..(MaxDocs - 1)

\* calendars and events created so far
Created == Cardinality(DOMAIN createdBy.calendar) + Cardinality(DOMAIN createdBy.event)

\* event creations that have passed the ownership check and not yet saved the event
Creating == Cardinality({q \in Slots : tasks[q].op = "evCreate" /\ tasks[q].pc = "saveEvent"})

ApiFrame == UNCHANGED <<users, blacklist, now, revoked, call>>

calendarNotFound == Answer(404, "Calendar not found", <<>>)

\* POST /calendar
CalendarCreate(r, userId, name) ==
    /\ Quiet /\ Free(r)
    /\ Created + Creating < MaxDocs
    /\ LET cid == Cardinality(DOMAIN createdBy.calendar) + 1
           newCalendar == [name |-> name, owner |-> userId, events |-> <<>>]
           stored == calendars @@ (cid :> newCalendar)
       IN  /\ calendars' = stored
           /\ createdBy' = [createdBy EXCEPT !.calendar = @ @@ (cid :> userId)]
           /\ tasks' = [tasks EXCEPT ![r] =
                  Done(ApiReq("calCreate", userId, cid, 0, name),
                       Answer(201, "Calendar created successfully", CalendarJson(stored, cid)))]
    /\ UNCHANGED events /\ ApiFrame

\* GET /calendar
CalendarList(r, userId) ==
    /\ Quiet /\ Free(r)
    /\ tasks' = [tasks EXCEPT ![r] =
           Done(ApiReq("calList", userId, 0, 0, <<>>),
                Answer(200, "", CalendarFind(calendars, userId)))]
    /\ UNCHANGED <<calendars, events, createdBy>> /\ ApiFrame

\* PUT /calendar/:calendarId
CalendarRename(r, userId, cid, name) ==
    /\ Quiet /\ Free(r)
    /\ LET stored == CalendarFindOneAndUpdate(calendars, cid, userId, name)
       IN  /\ calendars' = stored
           /\ tasks' = [tasks EXCEPT ![r] =
                  Done(ApiReq("calRename", userId, cid, 0, name),
                       IF Owns(calendars, cid, userId)
                       THEN Answer(200, "Calendar updated", CalendarJson(stored, cid))
                       ELSE calendarNotFound)]
    /\ UNCHANGED <<events, createdBy>> /\ ApiFrame

\* DELETE /calendar/:calendarId
CalendarDelete(r, userId, cid) ==
    /\ Quiet /\ Free(r)
    /\ LET stored == CalendarFindOneAndDelete(calendars, cid, userId)
       IN  /\ calendars' = stored
           /\ tasks' = [tasks EXCEPT ![r] =
                  Done(ApiReq("calDelete", userId, cid, 0, <<>>),
                       IF cid \in DOMAIN calendars /\ cid \notin DOMAIN stored
                       THEN Answer(200, "Calendar deleted successfully", <<>>)
                       ELSE calendarNotFound)]
    /\ UNCHANGED <<events, createdBy>> /\ ApiFrame

-----------------------------------------------------------------------------
(* Event routes *)

accessDenied == Answer(403, "Access denied, you don't own this calendar", <<>>)

\* POST /event/:calendarId/events up to its store read: Calendar.findById
EventCreate(r, userId, cid, body) ==
    /\ Quiet /\ Free(r)
    /\ Owns(calendars, cid, userId) => Created + Creating < MaxDocs
    /\ LET t == ApiReq("evCreate", userId, cid, 0, body)
       IN  tasks' = [tasks EXCEPT ![r] =
                IF ~Owns(calendars, cid, userId) THEN Done(t, accessDenied)
                ELSE [t EXCEPT !.pc = "saveEvent", !.local = calendars[cid].events]]
    /\ UNCHANGED <<calendars, events, createdBy>> /\ ApiFrame

\* await newEvent.save(): validation, then the insert
EventSave(r) ==
    /\ Quiet /\ tasks[r].op = "evCreate" /\ tasks[r].pc = "saveEvent"
    /\ LET t == tasks[r]
           eid == Cardinality(DOMAIN createdBy.event) + 1
       IN  IF ~EventValid(t.body)
           THEN /\ tasks' = [tasks EXCEPT ![r] =
                       Done(t, Answer(500, "Server error during event creation",
                                      "Event validation failed"))]
                /\ UNCHANGED <<events, createdBy>>
           ELSE /\ events' = events @@ (eid :> NewEvent(t.body, t.user))
                /\ createdBy' = [createdBy EXCEPT !.event = @ @@
                       (eid :> [calendar |-> t.cal, by |-> t.user, body |-> t.body])]
                /\ tasks' = [tasks EXCEPT ![r] = [t EXCEPT !.pc = "saveCalendar", !.ev = eid]]
    /\ UNCHANGED calendars /\ ApiFrame

\* calendar.events.push(newEvent._id); await calendar.save(); 201
EventAttach(r) ==
    /\ Quiet /\ tasks[r].op = "evCreate" /\ tasks[r].pc = "saveCalendar"
    /\ LET t == tasks[r]
       IN  IF t.cal \notin DOMAIN calendars
           THEN /\ tasks' = [tasks EXCEPT ![r] =
                       Done(t, Answer(500, "Server error during event creation",
                                      "No document found for query"))]
                /\ calendars' = calendars
           ELSE /\ calendars' = CalendarSavePush(calendars, t.cal, t.local, t.ev)
                /\ tasks' = [tasks EXCEPT ![r] =
                       Done(t, Answer(201, "Event created successfully",
                                      EventJson(t.ev :> NewEvent(t.body, t.user), t.ev)))]
    /\ UNCHANGED <<events, createdBy>> /\ ApiFrame

\* GET /event/events/:eventId
EventGet(r, userId, eid) ==
    /\ Quiet /\ Free(r)
    /\ tasks' = [tasks EXCEPT ![r] =
           Done(ApiReq("evGet", userId, 0, eid, <<>>),
                IF eid \notin DOMAIN events THEN Answer(404, "Event not found", <<>>)
                ELSE Answer(200, "", EventPopulated(events, users, eid)))]
    /\ UNCHANGED <<calendars, events, createdBy>> /\ ApiFrame

\* GET /event/:calendarId/events: Calendar.findById(calendarId).populate("events")
EventList(r, userId, cid) ==
    /\ Quiet /\ Free(r)
    /\ tasks' = [tasks EXCEPT ![r] =
           Done(ApiReq("evList", userId, cid, 0, <<>>),
                IF ~Owns(calendars, cid, userId) THEN accessDenied
                ELSE Answer(200, "",
                            {EventJson(events, e) :
                                e \in Range(calendars[cid].events) \cap DOMAIN events}))]
    /\ UNCHANGED <<calendars, events, createdBy>> /\ ApiFrame

organizerOnly == Answer(403, "Access denied, only the organizer can update this event", <<>>)

\* the schema's cast of one field of an update
CastField(field, value) ==
    CASE field = "title" -> Trim(value)
      [] field \in {"startTime", "endTime"} -> CastDate(value)
      [] OTHER -> value

\* the organizer is kept whatever the body says
EventSet_keepOrganizer(doc, body) ==
    [f \in DOMAIN doc |->
        IF f \in DOMAIN body /\ f # "organizer" THEN CastField(f, body[f]) ELSE doc[f]]

\* {$set: req.body}: the fields of the body replace those of the document
EventSet(doc, body) ==
    [f \in DOMAIN doc |-> IF f \in DOMAIN body THEN CastField(f, body[f]) ELSE doc[f]]

\* runValidators: true, with required: true on title
UpdateValid(body) == "title" \in DOMAIN body => Trim(body.title) # <<>>

\* PATCH /event/events/:eventId up to its store read: Event.findById
EventPatch(r, userId, eid, body) ==
    /\ Quiet /\ Free(r)
    /\ LET t == ApiReq("evPatch", userId, 0, eid, body)
       IN  tasks' = [tasks EXCEPT ![r] =
                IF eid \notin DOMAIN events \/ events[eid].organizer # userId
                THEN Done(t, organizerOnly)
                ELSE [t EXCEPT !.pc = "update"]]
    /\ UNCHANGED <<calendars, events, createdBy>> /\ ApiFrame

\* Event.findByIdAndUpdate(eventId, {$set: req.body}, {new: true, runValidators: true}); 200
EventUpdate(r) ==
    /\ Quiet /\ tasks[r].op = "evPatch" /\ tasks[r].pc = "update"
    /\ LET t == tasks[r]
           updated == [events EXCEPT ![t.ev] = EventSet(@, t.body)]
       IN  IF ~UpdateValid(t.body)
           THEN /\ tasks' = [tasks EXCEPT ![r] =
                       Done(t, Answer(500, "Server error during event update",
                                      "Validation failed"))]
                /\ events' = events
           ELSE IF t.ev \notin DOMAIN events
           THEN /\ tasks' = [tasks EXCEPT ![r] =
                       Done(t, Answer(200, "Event updated successfully", "null"))]
                /\ events' = events
           ELSE /\ events' = updated
                /\ tasks' = [tasks EXCEPT ![r] =
                       Done(t, Answer(200, "Event updated successfully",
                                      EventJson(updated, t.ev)))]
    /\ UNCHANGED <<calendars, createdBy>> /\ ApiFrame

\* the pull writes the list back unchanged
CalendarSavePull_noop(store, cid, eid) == store

\* calendar.events.pull(id); calendar.save(): an atomic $pull on the stored array
CalendarSavePull(store, cid, eid) ==
    [store EXCEPT ![cid].events = SelectSeq(@, LAMBDA x : x # eid)]

\* DELETE /event/:calendarId/events/:eventId, the variant that detaches, up to its
\* store read: Calendar.findById, calendar.events.includes(eventId)
EventDetach(r, userId, cid, eid) ==
    /\ Quiet /\ Free(r)
    /\ LET t == ApiReq("evDetach", userId, cid, eid, <<>>)
       IN  tasks' = [tasks EXCEPT ![r] =
                IF ~Owns(calendars, cid, userId) THEN Done(t, accessDenied)
                ELSE IF eid \notin Range(calendars[cid].events)
                THEN Done(t, Answer(404, "Event not found in this calendar", <<>>))
                ELSE [t EXCEPT !.pc = "pull"]]
    /\ UNCHANGED <<calendars, events, createdBy>> /\ ApiFrame

\* DELETE /event/:calendarId/events/:eventId, the variant that deletes the Event
\* record, up to its first store read: Calendar.findById; the calendar's list is
\* not looked at
EventDelete(r, userId, cid, eid) ==
    /\ Quiet /\ Free(r)
    /\ LET t == ApiReq("evDelete", userId, cid, eid, <<>>)
       IN  tasks' = [tasks EXCEPT ![r] =
                IF ~Owns(calendars, cid, userId) THEN Done(t, accessDenied)
                ELSE [t EXCEPT !.pc = "deleteEvent"]]
    /\ UNCHANGED <<calendars, events, createdBy>> /\ ApiFrame

\* Event.findByIdAndDelete(eventId)
EventFindByIdAndDelete(r) ==
    /\ Quiet /\ tasks[r].op = "evDelete" /\ tasks[r].pc = "deleteEvent"
    /\ LET t == tasks[r]
       IN  IF t.ev \notin DOMAIN events
           THEN /\ tasks' = [tasks EXCEPT ![r] = Done(t, Answer(404, "Event not found", <<>>))]
                /\ events' = events
           ELSE /\ events' = Without(events, t.ev)
                /\ tasks' = [tasks EXCEPT ![r] = [t EXCEPT !.pc = "pull"]]
    /\ UNCHANGED <<calendars, createdBy>> /\ ApiFrame

\* calendar.events.pull(id); await calendar.save(); 200, in both variants
EventPull(r) ==
    /\ Quiet /\ tasks[r].op \in {"evDetach", "evDelete"} /\ tasks[r].pc = "pull"
    /\ LET t == tasks[r]
           removal == IF t.op = "evDetach" THEN "removal" ELSE "deletion"
       IN  IF t.cal \notin DOMAIN calendars
           THEN /\ tasks' = [tasks EXCEPT ![r] =
                       Done(t, Answer(500, "Server error during event " \o removal,
                                      "No document found for query"))]
                /\ calendars' = calendars
           ELSE /\ calendars' = CalendarSavePull(calendars, t.cal, t.ev)
                /\ tasks' = [tasks EXCEPT ![r] =
                       Done(t, Answer(200,
                                      IF t.op = "evDetach"
                                      THEN "Event removed from calendar successfully"
                                      ELSE "Event deleted successfully", <<>>))]
    /\ UNCHANGED <<events, createdBy>> /\ ApiFrame

PatchBodies == {[title |-> <<" ", "T">>], [organizer |-> 2]}

FinishApi(r) ==
    /\ tasks[r].pc = "done"
    /\ tasks' = [tasks EXCEPT ![r] = Idle]
    /\ UNCHANGED <<calendars, events, createdBy>> /\ ApiFrame

T1 == 2 * MsPerDay + 9 * Hour
T2 == T1 + Hour

PlainBody ==
    [title |-> <<"S">>, startTime |-> DateJson(T1), endTime |-> DateJson(T2), attendees |-> {}]

ApiBodies == {PlainBody, [PlainBody EXCEPT !.title = <<" ">>]}

InitApi ==
    /\ users = SeedUsers /\ blacklist = {} /\ now = 0 /\ revoked = {}
    /\ calendars = EmptyStore /\ events = EmptyStore /\ createdBy = NoHistory
    /\ tasks = [r \in Slots |-> Idle]
    /\ call = NoCall

NextApi ==
    \/ \E r \in Slots, u \in UserIds, n \in NewCalendarNames : CalendarCreate(r, u, n)
    \/ \E r \in Slots, u \in UserIds : CalendarList(r, u)
    \/ \E r \in Slots, u \in UserIds, c \in CalendarIds, n \in CalendarNames :
          CalendarRename(r, u, c, n)
    \/ \E r \in Slots, u \in UserIds, c \in CalendarIds : CalendarDelete(r, u, c)
    \/ \E r \in Slots, u \in UserIds, c \in CalendarIds, b \in ApiBodies :
          EventCreate(r, u, c, b)
    \/ \E r \in Slots, u \in UserIds, e \in EventIds : EventGet(r, u, e)
    \/ \E r \in Slots, u \in UserIds, c \in CalendarIds : EventList(r, u, c)
    \/ \E r \in Slots : EventSave(r) \/ EventAttach(r) \/ FinishApi(r)

SpecApi == InitApi /\ [][NextApi]_vars

-----------------------------------------------------------------------------
(* Creating events under one calendar and reading them back *)

PaddedBody ==
    [title |-> <<" ", "S", " ">>, startTime |-> [fmt |-> "date", ms |-> 2 * MsPerDay],
     endTime |-> DateJson(T2), attendees |-> {2}]

RoundTripBodies ==
    {PlainBody, PaddedBody, [PlainBody EXCEPT !.title = <<" ">>],
     [PaddedBody EXCEPT !.startTime = NoDate]}

InitRoundTrip ==
    /\ users = SeedUsers /\ blacklist = {} /\ now = 0 /\ revoked = {}
    /\ calendars = (1 :> [name |-> "Work", owner |-> 1, events |-> <<>>])
    /\ events = EmptyStore
    /\ createdBy = [NoHistory EXCEPT !.calendar = (1 :> 1)]
    /\ tasks = [r \in Slots |-> Idle]
    /\ call = NoCall

NextRoundTrip ==
    \/ \E r \in Slots, u \in UserIds, c \in CalendarIds, b \in RoundTripBodies :
          EventCreate(r, u, c, b)
    \/ \E r \in Slots, u \in UserIds, e \in EventIds : EventGet(r, u, e)
    \/ \E r \in Slots : EventSave(r) \/ EventAttach(r) \/ FinishApi(r)

SpecRoundTrip == InitRoundTrip /\ [][NextRoundTrip]_vars

------------------------------------------------------------------------------
(* Every event route, over two calendars of two owners *)

TwoCalendars ==
    (1 :> [name |-> "Work", owner |-> 1, events |-> <<>>])
        @@ (2 :> [name |-> "Home", owner |-> 2, events |-> <<>>])

InitEvents ==
    /\ users = SeedUsers /\ blacklist = {} /\ now = 0 /\ revoked = {}
    /\ calendars = TwoCalendars
    /\ events = EmptyStore
    /\ createdBy = [NoHistory EXCEPT !.calendar = (1 :> 1) @@ (2 :> 2)]
    /\ tasks = [r \in Slots |-> Idle]
    /\ call = NoCall

NextEvents ==
    \/ \E r \in Slots, u \in UserIds, c \in DOMAIN TwoCalendars : CalendarRename(r, u, c, "Den")
    \/ \E r \in Slots, u \in UserIds, c \in DOMAIN TwoCalendars : CalendarDelete(r, u, c)
    \/ \E r \in Slots, u \in UserIds, c \in DOMAIN TwoCalendars : EventCreate(r, u, c, PlainBody)
    \/ \E r \in Slots, u \in UserIds, e \in EventIds, b \in PatchBodies :
          EventPatch(r, u, e, b)
    \/ \E r \in Slots, u \in UserIds, c \in DOMAIN TwoCalendars, e \in EventIds :
          EventDetach(r, u, c, e) \/ EventDelete(r, u, c, e)
    \/ \E r \in Slots : EventUpdate(r) \/ EventFindByIdAndDelete(r) \/ EventPull(r)
    \/ \E r \in Slots : EventSave(r) \/ EventAttach(r) \/ FinishApi(r)

SpecEvents == InitEvents /\ [][NextEvents]_vars

-----------------------------------------------------------------------------
(* The auth gate in front of the protected routes, and sessions *)

\* the claims jwt.verify decodes from a token
Claims(token) ==
    [id |-> token.id, email |-> token.email, name |-> token.name, role |-> token.role,
     iat |-> token.iat, exp |-> token.exp]

NoClaims == Claims(MissingToken)

GateVariants == {"identity", "blacklist"}

GateReq(variant, token) ==
    [op |-> "gate", pc |-> "start", variant |-> variant, token |-> token,
     user |-> NoClaims, resp |-> Answer(0, "", <<>>)]

\* the revocation check of the two variants of authMiddleware:
\* User.find({}) and !user[0].refreshToken, or Blacklist.findOne({token})
GateRevoked(variant, token, identities, revocations) ==
    IF variant = "identity" THEN identities[1].refreshToken = NullToken
    ELSE token \in revocations

\* no response: next() is called
GatePass == Answer(0, "next", <<>>)

\* authMiddleware: the response it sends, or GatePass when it calls next()
GateOutcome(variant, token, identities, revocations, at) ==
    IF token = MissingToken THEN Answer(403, "No token provided", <<>>)
    ELSE IF variant = "identity" /\ identities = <<>> THEN Answer(500, "Server error", <<>>)
    ELSE IF GateRevoked(variant, token, identities, revocations)
         THEN Answer(403, "Token has been revoked", <<>>)
    ELSE IF ~jwtVerify(token, "JWT_SECRET", at) THEN Answer(401, "Invalid token", <<>>)
    ELSE GatePass

\* what a client puts in the authorization header: nothing, a made-up token, an
\* access token signed for an identity now, earlier or long ago, or a refresh token
GateTokens ==
    {generateAccessToken(users[i], t) : i \in DOMAIN users, t \in (0..now) \cup {0 - AccessTtl}}
        \cup (RefreshTokens \ {generateRefreshToken(users[i], t) : i \in DOMAIN users, t \in 1..now})

SessionFrame == UNCHANGED <<calendars, events, createdBy, call>>

\* a request to a protected route, through authMiddleware
Gate(r, variant, token) ==
    /\ Quiet /\ Free(r)
    /\ token \in GateTokens
    /\ LET t == GateReq(variant, token)
           outcome == GateOutcome(variant, token, users, blacklist, now)
       IN  tasks' = [tasks EXCEPT ![r] =
                IF outcome = GatePass
                THEN [t EXCEPT !.pc = "next", !.user = Claims(token)]
                ELSE Done(t, outcome)]
    /\ UNCHANGED <<users, blacklist, now, revoked>> /\ SessionFrame

\* the handler behind the gate, here GET /calendar, with req.user as the gate set it
Handle(r) ==
    /\ Quiet /\ tasks[r].op = "gate" /\ tasks[r].pc = "next"
    /\ tasks' = [tasks EXCEPT ![r] =
           Done(tasks[r], Answer(200, "", CalendarFind(calendars, tasks[r].user.id)))]
    /\ UNCHANGED <<users, blacklist, now, revoked>> /\ SessionFrame

\* every identity is matched
UserFindOneAndUpdateClear_all(store, email) ==
    [i \in DOMAIN store |-> [store[i] EXCEPT !.refreshToken = NullToken]]

\* User.findOneAndUpdate({email}, {refreshToken: null})
UserFindOneAndUpdateClear(store, email) ==
    LET i == UserFindOneByEmail(store, email)
    IN  IF i = 0 THEN store ELSE [store EXCEPT ![i].refreshToken = NullToken]

\* POST /auth/logout, the variant that names the identity by email
LogoutByEmail(r, email) ==
    /\ Quiet /\ Free(r)
    /\ users' = UserFindOneAndUpdateClear(users, email)
    /\ tasks' = [tasks EXCEPT ![r] =
           Done(AuthReq("logoutEmail", email, <<>>, MissingToken),
                Reply(200, "Logout successful"))]
    /\ UNCHANGED <<blacklist, now, revoked>> /\ SessionFrame

\* an Identity store whose first identity's session is thirty days old
StaleUsers ==
    LET a == UserDoc(1, EmailA, StrongPassword, "A", NullToken)
        b == UserDoc(2, EmailB, OtherPassword, "B", NullToken)
    IN  << [a EXCEPT !.refreshToken = generateRefreshToken(a, 0 - RefreshTtl)],
           [b EXCEPT !.refreshToken = generateRefreshToken(b, 0)] >>

SessionCalendars ==
    (1 :> [name |-> "Work", owner |-> 1, events |-> <<>>])
        @@ (2 :> [name |-> "Home", owner |-> 2, events |-> <<>>])

InitSession ==
    /\ users \in {<<>>, SeedUsers, StaleUsers}
    /\ blacklist = {} /\ now = 0 /\ revoked = {}
    /\ calendars = IF users = <<>> THEN EmptyStore ELSE SessionCalendars
    /\ createdBy = IF users = <<>> THEN NoHistory
                   ELSE [NoHistory EXCEPT !.calendar = (1 :> 1) @@ (2 :> 2)]
    /\ events = EmptyStore
    /\ tasks = [r \in Slots |-> Idle]
    /\ call = NoCall

\* the gate, with logouts going on
NextGate ==
    \/ \E r \in Slots, v \in GateVariants, t \in GateTokens : Gate(r, v, t)
    \/ \E r \in Slots, t \in PresentableTokens : Logout(r, t)
    \/ \E r \in Slots, t \in PresentableTokens : RefreshToken(r, t)
    \/ \E r \in Slots : Handle(r) \/ LogoutUpdate(r) \/ Finish(r)

SpecGate == InitSession /\ [][NextGate]_vars

\* logins, token exchanges and both variants of logout
NextSession ==
    \/ \E r \in Slots, e \in Emails, p \in LoginPasswords : Login(r, e, p)
    \/ \E r \in Slots, t \in PresentableTokens : RefreshToken(r, t)
    \/ \E r \in Slots, t \in RefreshTokens : Logout(r, t)
    \/ \E r \in Slots, e \in Emails : LogoutByEmail(r, e)
    \/ \E r \in Slots :
          \/ LoginCompare(r)
          \/ LogoutUpdate(r)
          \/ Finish(r)
    \/ Tick

SpecSession == InitSession /\ [][NextSession]_vars

-----------------------------------------------------------------------------
(* Claims about the auth routes *)

\* request r is taken up in this step as an `op` request
Arrives(r, op) == tasks[r].pc = "idle" /\ tasks'[r].pc # "idle" /\ tasks'[r].op = op

\* request r is answered in this step
Answered(r) == tasks[r].pc # "done" /\ tasks'[r].pc = "done"

\* C1: a registration whose email already belongs to a stored Identity is answered
\* 400 "User already registered" whatever the password, and creates no Identity.
C1_ExistingEmailAlwaysAlreadyRegistered ==
    [][\A r \in Slots :
          (Arrives(r, "register") /\ UserFindOneByEmail(users, tasks'[r].email) # 0) =>
              /\ tasks'[r].pc = "done"
              /\ tasks'[r].resp = Reply(400, "User already registered")
              /\ users' = users]_vars

\* C2: once a logout naming refresh token T has answered success, and while the
\* identity of T makes no login or registration, a refresh request carrying T is
\* answered 403 "Invalid refresh token" and issues no access token.
C2_LoggedOutTokenNotExchangeable ==
    [][\A r \in Slots :
          (Arrives(r, "refresh") /\ tasks'[r].token \in revoked) =>
              /\ tasks'[r].pc = "done"
              /\ tasks'[r].resp.status = 403
              /\ tasks'[r].resp.message = "Invalid refresh token"
              /\ tasks'[r].resp.accessToken = MissingToken]_vars

\* a refresh token that was signed for an identity, logged out, and then refused
C2_Witness ==
    \E r \in Slots :
        /\ tasks[r].op = "refresh" /\ tasks[r].pc = "done"
        /\ tasks[r].token \in revoked
        /\ tasks[r].token.secret = "JWT_REFRESH_SECRET"
        /\ tasks[r].resp.status = 403
        /\ \E q \in Slots \ {r} : tasks[q].pc = "compare"

\* C10: a login for an email no Identity has is answered 400 "Invalid credentials,
\* user not found"; a login whose password does not match the Identity's is answered
\* 400 "Invalid credentials, incorrect password"; the two messages differ, no token
\* is issued and no stored refresh token changes.
C10_LoginFailures ==
    [][\A r \in Slots :
          /\ (Arrives(r, "login") /\ UserFindOneByEmail(users, tasks'[r].email) = 0) =>
                /\ tasks'[r].pc = "done"
                /\ tasks'[r].resp.status = 400
                /\ tasks'[r].resp.message = "Invalid credentials, user not found"
                /\ tasks'[r].resp.accessToken = MissingToken
                /\ tasks'[r].resp.refreshToken = MissingToken
                /\ users' = users
          /\ (/\ tasks[r].op = "login" /\ Answered(r)
              /\ UserFindOneByEmail(users, tasks[r].email) # 0
              /\ ~bcryptCompare(tasks[r].password,
                                users[UserFindOneByEmail(users, tasks[r].email)].password)) =>
                /\ tasks'[r].resp.status = 400
                /\ tasks'[r].resp.message = "Invalid credentials, incorrect password"
                /\ tasks'[r].resp.accessToken = MissingToken
                /\ tasks'[r].resp.refreshToken = MissingToken
                /\ users' = users]_vars

\* a wrong password for a registered identity that holds a refresh token, refused
C10_Witness ==
    \E r \in Slots :
        /\ tasks[r].op = "login" /\ tasks[r].pc = "done"
        /\ tasks[r].resp.message = "Invalid credentials, incorrect password"
        /\ \E i \in DOMAIN users :
              users[i].email = tasks[r].email /\ users[i].refreshToken # NullToken

-----------------------------------------------------------------------------
(* Claims about the calendar and event routes *)

\* C3: an event creation by a requester who does not own the calendar, or naming
\* a calendar that does not exist, is answered 403, persists no Event and leaves
\* every calendar's event list unchanged.
C3_NonOwnerCreateRefused ==
    [][\A r \in Slots :
          (/\ Arrives(r, "evCreate")
           /\ \/ tasks'[r].cal \notin DOMAIN calendars
              \/ calendars[tasks'[r].cal].owner # tasks'[r].user) =>
                /\ tasks'[r].pc = "done"
                /\ tasks'[r].resp.status = 403
                /\ events' = events
                /\ calendars' = calendars]_vars

\* an existing calendar, an event creation by another identity, refused
C3_Witness ==
    \E r \in Slots :
        /\ tasks[r].op = "evCreate" /\ tasks[r].pc = "done"
        /\ tasks[r].resp.status = 403
        /\ tasks[r].cal \in DOMAIN calendars
        /\ calendars[tasks[r].cal].owner # tasks[r].user

\* C4: whatever the interleaving of the reads and writes of concurrent event
\* creations on one calendar, a creation answered 201 has its Event persisted and
\* its id in the calendar's list, and its append keeps every id already there.
C4_NoLostAppend ==
    [][\A r \in Slots :
          (/\ tasks[r].op = "evCreate" /\ Answered(r)
           /\ tasks'[r].resp.status = 201) =>
                /\ tasks[r].ev \in DOMAIN events'
                /\ \A e \in Range(calendars[tasks[r].cal].events) \cup {tasks[r].ev} :
                      e \in Range(calendars'[tasks[r].cal].events)]_vars

\* a creation answered 201 that loaded the calendar with an empty list while the
\* other creation's id was appended in between: both ids are in the list
C4_Witness ==
    \E r \in Slots :
        /\ tasks[r].op = "evCreate" /\ tasks[r].pc = "done"
        /\ tasks[r].resp.status = 201
        /\ tasks[r].local = <<>>
        /\ Len(calendars[tasks[r].cal].events) = 2
        /\ DOMAIN events = {1, 2}

\* C5: the calendar list answered to identity U is exactly the set of stored
\* calendars that U created, each owned by U.
C5_ListIsOwnCalendars ==
    \A r \in Slots :
        (tasks[r].op = "calList" /\ tasks[r].pc = "done") =>
            /\ tasks[r].resp.status = 200
            /\ {d.id : d \in tasks[r].resp.body} =
                   {c \in DOMAIN calendars : createdBy.calendar[c] = tasks[r].user}
            /\ \A d \in tasks[r].resp.body :
                  d.owner = tasks[r].user /\ d.name = calendars[d.id].name

\* a list with a renamed calendar in it, answered while another identity's
\* calendar is stored
C5_Witness ==
    \E r \in Slots :
        /\ tasks[r].op = "calList" /\ tasks[r].pc = "done"
        /\ \E d \in tasks[r].resp.body : d.name = "Home"
        /\ \E c \in DOMAIN calendars : calendars[c].owner # tasks[r].user

\* C6: a calendar deletion is answered 200 and removes the calendar only when the
\* requester owns it; otherwise it is answered 404 "Calendar not found" and every
\* calendar stays stored and unchanged, still owned by its owner.
C6_DeleteOnlyByOwner ==
    [][\A r \in Slots :
          Arrives(r, "calDelete") =>
              LET c == tasks'[r].cal
                  u == tasks'[r].user
              IN  /\ tasks'[r].pc = "done"
                  /\ IF c \in DOMAIN calendars /\ calendars[c].owner = u
                     THEN /\ tasks'[r].resp.status = 200
                          /\ c \notin DOMAIN calendars'
                     ELSE /\ tasks'[r].resp.status = 404
                          /\ tasks'[r].resp.message = "Calendar not found"
                          /\ calendars' = calendars]_vars

\* a stored calendar, a deletion by another identity, answered 404
C6_Witness ==
    \E r \in Slots :
        /\ tasks[r].op = "calDelete" /\ tasks[r].pc = "done"
        /\ tasks[r].resp.status = 404
        /\ tasks[r].cal \in DOMAIN calendars
        /\ calendars[tasks[r].cal].owner # tasks[r].user

\* the event of a created-and-attached id, as a finished read of it answers
ReadBack(r) == tasks[r].resp.body
Submitted(r) == createdBy.event[tasks[r].ev]
ReadsCreated(r) ==
    /\ tasks[r].op = "evGet" /\ tasks[r].pc = "done"
    /\ tasks[r].ev \in DOMAIN createdBy.event
    /\ Submitted(r).calendar \in DOMAIN calendars
    /\ tasks[r].ev \in Range(calendars[Submitted(r).calendar].events)

OrganizerExpanded(r) ==
    /\ tasks[r].resp.status = 200
    /\ ReadBack(r).organizer = Sanitized(users[Submitted(r).by])
    /\ \A p \in {ReadBack(r).organizer} \cup ReadBack(r).attendees :
          "password" \notin DOMAIN p /\ "refreshToken" \notin DOMAIN p

SameInstants(r) ==
    /\ ReadBack(r).startTime.ms = Submitted(r).body.startTime.ms
    /\ ReadBack(r).endTime.ms = Submitted(r).body.endTime.ms

\* C9 as stated: reading a created event back answers 200 with the title as
\* submitted, the submitted start and end instants, the organizer expanded to the
\* requester's identity record, and no password or refreshToken in any person.
C9_RoundTripIdentical ==
    \A r \in Slots :
        ReadsCreated(r) =>
            /\ OrganizerExpanded(r)
            /\ SameInstants(r)
            /\ ReadBack(r).title = Submitted(r).body.title

\* C9: reading a created event back answers 200 with the submitted title stripped
\* of leading and trailing whitespace, the submitted start and end instants in
\* ISO form, the organizer expanded to the requester's identity record, and no
\* password or refreshToken in any person.
C9_RoundTripTrimmed ==
    \A r \in Slots :
        ReadsCreated(r) =>
            /\ OrganizerExpanded(r)
            /\ SameInstants(r)
            /\ ReadBack(r).startTime.fmt = "iso" /\ ReadBack(r).endTime.fmt = "iso"
            /\ ReadBack(r).title = Trim(Submitted(r).body.title)

\* an event submitted with a padded title, a date-only start and an attendee,
\* read back
C9_Witness ==
    \E r \in Slots :
        /\ ReadsCreated(r)
        /\ Submitted(r).body.title # Trim(Submitted(r).body.title)
        /\ Submitted(r).body.startTime.fmt = "date"
        /\ ReadBack(r).attendees # {}

-----------------------------------------------------------------------------
(* Claims about the day lookup's boundaries *)

\* the events organized by userId that start within local day d
EventsWithinLocalDay(userId, d, offset) ==
    {e \in DOMAIN events :
        /\ events[e].organizer = userId
        /\ LocalMidnight(d, offset) <= events[e].startTime
        /\ events[e].startTime < LocalMidnight(d + 1, offset)}

\* C20: on a server whose local time is UTC, the day lookup answers 200 with
\* every event organized by the requester that starts within the day, the day's
\* last millisecond included, and 404 "No events found for the specified date"
\* exactly when there is no such event.
C20_WholeDayToItsLastMillisecond ==
    (call.fn = "day" /\ call.result.status # 0 /\ call.date.valid /\ call.offset = 0) =>
        LET day == EventsWithinLocalDay(call.user, call.date.day, call.offset)
        IN  IF day = {}
            THEN /\ call.result.status = 404
                 /\ call.result.message = "No events found for the specified date"
            ELSE /\ call.result.status = 200
                 /\ call.result.events = day

-----------------------------------------------------------------------------
(* Claims about renaming a calendar *)

\* C17: a calendar rename changes the calendar's name, and is answered 200 with
\* the updated calendar, only when the requester owns the calendar; for any other
\* requester or a missing calendar it is answered 404 "Calendar not found" and
\* no calendar is changed.
C17_RenameOnlyByOwner ==
    [][\A r \in Slots :
          Arrives(r, "calRename") =>
              LET c == tasks'[r].cal
                  u == tasks'[r].user
                  n == tasks'[r].body
              IN  /\ tasks'[r].pc = "done"
                  /\ IF c \in DOMAIN calendars /\ calendars[c].owner = u
                     THEN /\ tasks'[r].resp.status = 200
                          /\ calendars' = [calendars EXCEPT ![c].name = n]
                          /\ tasks'[r].resp.body =
                                 [id |-> c, name |-> n, owner |-> u,
                                  events |-> calendars[c].events]
                     ELSE /\ tasks'[r].resp.status = 404
                          /\ tasks'[r].resp.message = "Calendar not found"
                          /\ calendars' = calendars]_vars

\* a stored calendar, a rename to another name by another identity, answered 404
C17_Witness ==
    \E r \in Slots :
        /\ tasks[r].op = "calRename" /\ tasks[r].pc = "done"
        /\ tasks[r].resp.status = 404
        /\ tasks[r].cal \in DOMAIN calendars
        /\ calendars[tasks[r].cal].owner # tasks[r].user
        /\ calendars[tasks[r].cal].name # tasks[r].body

-----------------------------------------------------------------------------
(* Claims about the Identity store *)

\* C19: no two stored Identities have the same email, whatever the interleaving
\* of the reads and writes of concurrent registrations.
C19_EmailsUnique ==
    \A i, j \in DOMAIN users : users[i].email = users[j].email => i = j

\* two registrations of one email both past the lookup that found no Identity,
\* one of them already stored
C19_Witness ==
    \E r, q \in Slots :
        /\ r # q
        /\ tasks[r].op = "register" /\ tasks[r].pc = "saveToken"
        /\ tasks[q].op = "register" /\ tasks[q].pc = "hash"
        /\ tasks[r].email = tasks[q].email
        /\ \E i \in DOMAIN users : users[i].email = tasks[q].email

\* the refresh-token route would exchange this token now
Exchangeable(store, token, at) ==
    /\ \E i \in DOMAIN store : store[i].refreshToken = token
    /\ token.secret = "JWT_REFRESH_SECRET" /\ at < token.exp

\* C14: a registration with an unregistered email and credentials the validator
\* accepts is taken up, stores the Identity without a refresh token, and is
\* answered 201 "Registration successful" with an access token and a refresh
\* token after exactly two saves, the stored refresh token being the returned one
\* and exchangeable at once.
C14_RegistrationSucceeds ==
    [][\A r \in Slots :
          /\ (/\ Arrives(r, "register")
              /\ validateUserCredentials(tasks'[r].email, tasks'[r].password) = NoError
              /\ \A i \in DOMAIN users : users[i].email # tasks'[r].email) =>
                 tasks'[r].pc = "hash" /\ users' = users
          /\ (/\ tasks[r].op = "register" /\ tasks[r].pc = "hash"
              /\ tasks'[r] # tasks[r]
              /\ \A i \in DOMAIN users : users[i].email # tasks[r].email) =>
                 /\ tasks'[r].pc = "saveToken"
                 /\ Len(users') = Len(users) + 1
                 /\ users'[Len(users')].email = tasks[r].email
                 /\ users'[Len(users')].refreshToken = NullToken
                 /\ tasks'[r].local.saves = 1
          /\ (tasks[r].op = "register" /\ tasks[r].pc = "saveToken" /\ tasks'[r] # tasks[r]) =>
                 LET resp == tasks'[r].resp
                 IN  /\ tasks'[r].pc = "done"
                     /\ resp.status = 201
                     /\ resp.message = "Registration successful"
                     /\ resp.accessToken.secret = "JWT_SECRET"
                     /\ resp.accessToken.email = tasks[r].email
                     /\ resp.refreshToken.email = tasks[r].email
                     /\ tasks'[r].local.saves = 2
                     /\ users'[tasks[r].local.id].email = tasks[r].email
                     /\ users'[tasks[r].local.id].refreshToken = resp.refreshToken
                     /\ Exchangeable(users', resp.refreshToken, now)]_vars

\* the second registration answered 201; its Identity holds the returned token
C14_Witness ==
    \E r \in Slots :
        /\ tasks[r].op = "register" /\ tasks[r].pc = "done"
        /\ tasks[r].resp.status = 201
        /\ Len(users) = 2
        /\ users[2].refreshToken = tasks[r].resp.refreshToken
        /\ tasks[r].local.saves = 2

-----------------------------------------------------------------------------
(* Claims about sessions *)

\* request r is a login or registration answered with tokens in this step
Issues(r) ==
    /\ tasks[r].op \in {"login", "register"} /\ Answered(r)
    /\ tasks'[r].resp.status \in {200, 201}

\* identity i's stored refresh token changes only to the token a login or
\* registration of i returns in the same step, or to null by a logout naming it
SessionWrittenOnlyByOwnRequests(i) ==
    users'[i].refreshToken # users[i].refreshToken =>
        \/ \E r \in Slots :
              /\ Issues(r) /\ tasks[r].email = users[i].email
              /\ users'[i].refreshToken = tasks'[r].resp.refreshToken
        \/ \E r \in Slots :
              /\ tasks[r].op = "logout" /\ Answered(r) /\ tasks'[r].resp.status = 200
              /\ tasks[r].token = users[i].refreshToken
              /\ users'[i].refreshToken = NullToken

-----------------------------------------------------------------------------
(* Claims about failures of the store *)

\* C18: no request is left without a response, and a request that ends on a
\* failure of the store ends with a 500 response that carries the route's message
\* and the failure's message as error.
C18_EveryFailureAnswered500 ==
    \A r \in Slots :
        /\ tasks[r].pc # "hung"
        /\ (tasks[r].pc = "done" /\ tasks[r].resp.status = 500) =>
               /\ tasks[r].resp.error # ""
               /\ tasks[r].resp.message \in {"Server error during login", "Server error"}

-----------------------------------------------------------------------------
(* Claims about the auth gate *)

\* the token is signed with the access secret and has not expired
VerifiesAsAccess(token) == token.secret = "JWT_SECRET" /\ now < token.exp

RefusedBy(r, status, message) ==
    /\ tasks'[r].pc = "done"
    /\ tasks'[r].resp.status = status
    /\ tasks'[r].resp.message = message

\* the parts of C11 that do not depend on which failure is reported: no header
\* is answered 403 "No token provided"; the handler is reached only with a token
\* that verifies, and with req.user the claims of that token; the gate changes no
\* store; the handler answers for req.user
GateLetsOnlyVerifiedThrough(r) ==
    /\ Arrives(r, "gate") =>
          /\ tasks'[r].token = MissingToken => RefusedBy(r, 403, "No token provided")
          /\ tasks'[r].pc = "next" =>
                /\ VerifiesAsAccess(tasks'[r].token)
                /\ tasks'[r].user = Claims(tasks'[r].token)
          /\ tasks'[r].pc \in {"next", "done"}
          /\ UNCHANGED <<users, blacklist, calendars, events>>
    /\ (tasks[r].op = "gate" /\ Answered(r) /\ tasks'[r].resp.status = 200) =>
          /\ tasks[r].pc = "next"
          /\ \A d \in tasks'[r].resp.body : d.owner = tasks[r].token.id
          /\ UNCHANGED <<users, blacklist, calendars, events>>

\* C11 as stated: besides the above, a token that fails verification is
\* answered 401 "Invalid token".
C11_GateAsStated ==
    [][\A r \in Slots :
          /\ GateLetsOnlyVerifiedThrough(r)
          /\ (/\ Arrives(r, "gate") /\ tasks'[r].token # MissingToken
              /\ ~VerifiesAsAccess(tasks'[r].token)) =>
                 RefusedBy(r, 401, "Invalid token")]_vars

\* C11: besides the above, a token that fails verification is answered 401
\* "Invalid token" unless the revocation check, which comes first, refuses the
\* request with 403 "Token has been revoked", or, in the variant that reads the
\* Identity store, no Identity is stored and the request ends with 500
\* "Server error".
C11_GateVerifies ==
    [][\A r \in Slots :
          /\ GateLetsOnlyVerifiedThrough(r)
          /\ (/\ Arrives(r, "gate") /\ tasks'[r].token # MissingToken
              /\ ~VerifiesAsAccess(tasks'[r].token)) =>
                 IF tasks'[r].variant = "identity" /\ users = <<>>
                 THEN RefusedBy(r, 500, "Server error")
                 ELSE IF \/ tasks'[r].variant = "identity" /\ users[1].refreshToken = NullToken
                         \/ tasks'[r].variant = "blacklist" /\ tasks'[r].token \in blacklist
                 THEN RefusedBy(r, 403, "Token has been revoked")
                 ELSE RefusedBy(r, 401, "Invalid token")]_vars

\* an expired access token of a stored identity, refused as invalid while another
\* token is recorded as revoked
C11_Witness ==
    \E r \in Slots :
        /\ tasks[r].op = "gate" /\ tasks[r].pc = "done"
        /\ tasks[r].resp.status = 401
        /\ tasks[r].token.secret = "JWT_SECRET"
        /\ tasks[r].variant = "blacklist"
        /\ blacklist # {}

\* what C12 calls revoked: recorded in the Revocation Store, or the Identity the
\* token belongs to has a null current refresh token
RevokedAsClaimed(variant, token) ==
    IF variant = "blacklist" THEN token \in blacklist
    ELSE \E i \in DOMAIN users : users[i].id = token.id /\ users[i].refreshToken = NullToken

\* C12: the gate answers 403 "Token has been revoked" exactly when the presented
\* token is revoked.
C12_RevokedExactlyWhenRevoked ==
    [][\A r \in Slots :
          (Arrives(r, "gate") /\ tasks'[r].token # MissingToken) =>
              (RefusedBy(r, 403, "Token has been revoked")
                  <=> RevokedAsClaimed(tasks'[r].variant, tasks'[r].token))]_vars

-----------------------------------------------------------------------------
(* Claims about token exchange and logout *)

RepliedWith(r, status, message) ==
    /\ tasks'[r].pc = "done"
    /\ tasks'[r].resp.status = status
    /\ tasks'[r].resp.message = message
    /\ tasks'[r].resp.refreshToken = MissingToken

\* C15: a token exchange is answered 200 with an access token signed now for
\* Identity I's claims exactly when the presented token is I's stored refresh
\* token and verifies against the refresh secret; without a token it is answered
\* 401 "Refresh token required", otherwise 403 "Invalid refresh token"; no stored
\* refresh token and no revocation record changes.
C15_RefreshExchangesStoredToken ==
    [][\A r \in Slots :
          Arrives(r, "refresh") =>
              LET token == tasks'[r].token
                  holders == {i \in DOMAIN users : users[i].refreshToken = token}
                  verifies == token.secret = "JWT_REFRESH_SECRET" /\ now < token.exp
              IN  /\ users' = users /\ blacklist' = blacklist
                  /\ IF token = MissingToken
                     THEN RepliedWith(r, 401, "Refresh token required")
                          /\ tasks'[r].resp.accessToken = MissingToken
                     ELSE IF holders # {} /\ verifies
                     THEN /\ RepliedWith(r, 200, "")
                          /\ \E i \in holders :
                                LET a == tasks'[r].resp.accessToken
                                IN  /\ a.secret = "JWT_SECRET"
                                    /\ a.id = users[i].id /\ a.email = users[i].email
                                    /\ a.name = users[i].name /\ a.role = users[i].role
                                    /\ a.iat = now /\ a.exp = now + AccessTtl
                     ELSE RepliedWith(r, 403, "Invalid refresh token")
                          /\ tasks'[r].resp.accessToken = MissingToken]_vars

\* a stored refresh token that has expired, refused
C15_Witness ==
    \E r \in Slots :
        /\ tasks[r].op = "refresh" /\ tasks[r].pc = "done"
        /\ tasks[r].resp.status = 403
        /\ \E i \in DOMAIN users : users[i].refreshToken = tasks[r].token

\* C16: a logout answered 200 has set to null the stored refresh token of exactly
\* the Identity it names (by email, or by holding the presented token) and left
\* every other Identity as it was; it is answered 200 also when it names no
\* Identity.
C16_LogoutClearsExactlyTheNamed ==
    [][\A r \in Slots :
          /\ Arrives(r, "logoutEmail") =>
                /\ tasks'[r].pc = "done" /\ tasks'[r].resp.status = 200
                /\ DOMAIN users' = DOMAIN users
                /\ \A i \in DOMAIN users :
                      users'[i] = IF users[i].email = tasks'[r].email
                                  THEN [users[i] EXCEPT !.refreshToken = NullToken]
                                  ELSE users[i]
          /\ (tasks[r].op = "logout" /\ tasks[r].pc = "updateOne" /\ tasks'[r] # tasks[r]) =>
                /\ tasks'[r].pc = "done" /\ tasks'[r].resp.status = 200
                /\ DOMAIN users' = DOMAIN users
                /\ \A i \in DOMAIN users :
                      users'[i] = IF users[i].refreshToken = tasks[r].token
                                  THEN [users[i] EXCEPT !.refreshToken = NullToken]
                                  ELSE users[i]]_vars

\* a logout by email answered 200: the named Identity holds no refresh token, the
\* other one still holds its own
C16_Witness ==
    \E r \in Slots, i, j \in DOMAIN users :
        /\ tasks[r].op = "logoutEmail" /\ tasks[r].pc = "done"
        /\ tasks[r].resp.status = 200
        /\ users[i].email = tasks[r].email /\ users[i].refreshToken = NullToken
        /\ users[j].email # tasks[r].email /\ users[j].refreshToken # NullToken

------------------------------------------------------------------------------
(* Claims about the event routes *)

\* C21: every persisted Event's organizer is the Identity that owned, when the
\* Event was created, the calendar it was created through
C21_OrganizerIsCreatingOwner ==
    \A e \in DOMAIN events :
        events[e].organizer = createdBy.calendar[createdBy.event[e].calendar]


\* event e is persisted before and after this step, with another content
EventChanged(e) == e \in DOMAIN events /\ e \in DOMAIN events' /\ events'[e] # events[e]

\* this step is the update of PATCH request r, which passed the organizer check
Updates(r) == tasks[r].op = "evPatch" /\ tasks[r].pc = "update" /\ tasks'[r].pc = "done"

ListWithout(c, e) == SelectSeq(calendars[c].events, LAMBDA x : x # e)

\* C23: the detaching DELETE /event/:calendarId/events/:eventId answers 403 to a
\* requester who does not own the calendar and 404 when the id is not in the
\* calendar's list, changing nothing in either case; otherwise it takes the id
\* out of that calendar's list and changes nothing else: no Event record, no
\* other calendar, no other field or entry of that calendar.
C23_DetachFrame ==
    [][\A r \in Slots :
          /\ Arrives(r, "evDetach") =>
                LET c == tasks'[r].cal
                    owned == c \in DOMAIN calendars /\ calendars[c].owner = tasks'[r].user
                    listed == \E i \in DOMAIN calendars[c].events :
                                 calendars[c].events[i] = tasks'[r].ev
                IN  /\ events' = events /\ calendars' = calendars
                    /\ ~owned => RefusedBy(r, 403, "Access denied, you don't own this calendar")
                    /\ (owned /\ ~listed) =>
                           RefusedBy(r, 404, "Event not found in this calendar")
                    /\ (owned /\ listed) => tasks'[r].pc = "pull"
          /\ (tasks[r].op = "evDetach" /\ tasks[r].pc = "pull" /\ tasks'[r] # tasks[r]) =>
                LET c == tasks[r].cal
                IN  /\ events' = events
                    /\ DOMAIN calendars' = DOMAIN calendars
                    /\ \A d \in DOMAIN calendars \ {c} : calendars'[d] = calendars[d]
                    /\ c \in DOMAIN calendars =>
                          /\ calendars'[c] =
                                 [calendars[c] EXCEPT !.events = ListWithout(c, tasks[r].ev)]
                          /\ RefusedBy(r, 200, "Event removed from calendar successfully")]_vars

\* a detaching DELETE has been answered 200: the id is in no list, the Event persists
C23_Witness ==
    \E r \in Slots :
        /\ tasks[r].op = "evDetach" /\ tasks[r].pc = "done" /\ tasks[r].resp.status = 200
        /\ tasks[r].cal \in DOMAIN calendars
        /\ calendars[tasks[r].cal].events = <<>>
        /\ tasks[r].ev \in DOMAIN events


\* the request that takes a step here was authenticated as identity i
StepBy(i) == \E r \in Slots : tasks'[r] # tasks[r] /\ tasks'[r].user = i

\* C24: a calendar keeps the owner it was created with; its name and its event
\* list change only in a step of a request authenticated as that owner.
C24_CalendarChangedOnlyByOwner ==
    [][\A c \in DOMAIN calendars' :
          /\ calendars'[c].owner = createdBy'.calendar[c]
          /\ c \in DOMAIN calendars =>
                /\ calendars'[c].owner = calendars[c].owner
                /\ (calendars'[c].name # calendars[c].name
                       \/ calendars'[c].events # calendars[c].events) =>
                      StepBy(calendars[c].owner)]_vars

\* calendar 1, of identity 1, has been renamed and has had an event attached and
\* taken out again, while identity 2 was refused
C24_Witness ==
    /\ 1 \in DOMAIN calendars /\ calendars[1].owner = 1 /\ calendars[1].name = "Den"
    /\ calendars[1].events = <<>>
    /\ \E e \in DOMAIN createdBy.event : createdBy.event[e].calendar = 1
    /\ \E r \in Slots :
          /\ tasks[r].pc = "done" /\ tasks[r].user = 2 /\ tasks[r].cal = 1
          /\ tasks[r].resp.status \in {403, 404}


------------------------------------------------------------------------------
(* Claims about the gate and the sessions of several identities *)

\* the records another identity's entry of the store may hold: any session state
OtherRecords(store, i) ==
    UNION {{[store[j] EXCEPT !.refreshToken = x] :
               x \in {NullToken, store[j].refreshToken, generateRefreshToken(store[j], 0)}} :
           j \in DOMAIN store \ {i}}

\* the Identity stores that hold identity i's record as it is and differ from
\* store only in the other identities: their refresh tokens, number and order
OthersVaried(store, i) ==
    {s \in UNION {[1..n -> {store[i]} \cup OtherRecords(store, i)] : n \in 1..Len(store)} :
        /\ \E k \in DOMAIN s : s[k] = store[i]
        /\ \A k, l \in DOMAIN s : s[k].id = s[l].id => k = l}

\* C25: the gate's outcome for a request that carries a token of identity A is the
\* same in every store that differs only in the records of other identities.
C25_GateDependsOnOwnSessionOnly ==
    [][\A r \in Slots :
          Arrives(r, "gate") =>
              \A i \in DOMAIN users :
                  tasks'[r].token.id = users[i].id =>
                      \A others \in OthersVaried(users, i) :
                          GateOutcome(tasks'[r].variant, tasks'[r].token, others,
                                      blacklist, now)
                              = IF tasks'[r].pc = "next" THEN GatePass ELSE tasks'[r].resp]_vars


\* C26: every id in the event list of a stored calendar is the id of a persisted
\* Event, and no list holds an id twice.
C26_ListsReferToPersistedEvents ==
    \A c \in DOMAIN calendars :
        \A k \in DOMAIN calendars[c].events :
            /\ calendars[c].events[k] \in DOMAIN events
            /\ \A l \in DOMAIN calendars[c].events :
                  calendars[c].events[k] = calendars[c].events[l] => k = l


\* C27: the deleting DELETE /event/:calendarId/events/:eventId removes an Event
\* from the store only if its id is in the list of calendar calendarId and the
\* requester owns that calendar.
C27_DeletesOnlyThroughOwnCalendar ==
    [][\A e \in DOMAIN events :
          e \notin DOMAIN events' =>
              \E r \in Slots :
                  /\ tasks[r].op = "evDelete" /\ tasks'[r] # tasks[r] /\ tasks[r].ev = e
                  /\ tasks[r].cal \in DOMAIN calendars
                  /\ calendars[tasks[r].cal].owner = tasks[r].user
                  /\ \E k \in DOMAIN calendars[tasks[r].cal].events :
                        calendars[tasks[r].cal].events[k] = e]_vars


\* C28: a token signed with the refresh secret never passes the gate, and a token
\* signed with the access secret presented to POST /auth/refresh-token is answered
\* 403 "Invalid refresh token" without an access token.
C28_TokenTypesNotInterchangeable ==
    [][\A r \in Slots :
          /\ (Arrives(r, "gate") /\ tasks'[r].token.secret = "JWT_REFRESH_SECRET") =>
                /\ tasks'[r].pc = "done"
                /\ tasks'[r].resp.status \in {401, 403, 500}
          /\ tasks'[r].pc = "next" => tasks'[r].token.secret = "JWT_SECRET"
          /\ (Arrives(r, "refresh") /\ tasks'[r].token.secret = "JWT_SECRET") =>
                /\ tasks'[r].pc = "done"
                /\ tasks'[r].resp = Reply(403, "Invalid refresh token")
                /\ tasks'[r].resp.accessToken = MissingToken]_vars

\* the stored, unexpired refresh token of a logged-in identity has been presented
\* in the authorization header and refused as invalid
C28_Witness ==
    \E r \in Slots, i \in DOMAIN users :
        /\ tasks[r].op = "gate" /\ tasks[r].pc = "done"
        /\ tasks[r].token = users[i].refreshToken
        /\ tasks[r].token.secret = "JWT_REFRESH_SECRET" /\ now < tasks[r].token.exp
        /\ tasks[r].resp.status = 401


\* this step is a DELETE /calendar/:calendarId answered 200
CalendarDeleted(r) ==
    /\ Arrives(r, "calDelete")
    /\ tasks'[r].resp.status = 200

\* C29: a DELETE /calendar/:calendarId answered 200 removes that calendar record
\* and nothing else: every Event its list referenced stays persisted with the same
\* fields, GET /event/events/:eventId and the organizer's day lookup return it as
\* before, and no stored calendar lists it, so that listing or detaching it
\* through the deleted calendar is refused.
C29_CalendarDeleteKeepsEvents ==
    [][\A r \in Slots :
          /\ CalendarDeleted(r) =>
                LET c == tasks'[r].cal
                IN  /\ c \in DOMAIN calendars
                    /\ DOMAIN calendars' = DOMAIN calendars \ {c}
                    /\ \A d \in DOMAIN calendars' : calendars'[d] = calendars[d]
                    /\ DOMAIN events' = DOMAIN events
                    /\ \A e \in DOMAIN events : events'[e] = events[e]
                    /\ \A k \in DOMAIN calendars[c].events :
                          LET e == calendars[c].events[k]
                          IN  e \in DOMAIN events =>
                                /\ EventPopulated(events', users', e)
                                       = EventPopulated(events, users, e)
                                /\ \E date \in Dates :
                                      e \in EventsOfDay(events', events[e].organizer,
                                                        date, 0).events
                                /\ \A date \in Dates, offset \in TzOffsets :
                                      EventsOfDay(events', events[e].organizer, date, offset)
                                          = EventsOfDay(events, events[e].organizer, date, offset)
                                /\ \A d \in DOMAIN calendars' :
                                      \A l \in DOMAIN calendars'[d].events :
                                          calendars'[d].events[l] # e
          /\ (Arrives(r, "evDetach") /\ tasks'[r].cal \notin DOMAIN calendars) =>
                RefusedBy(r, 403, "Access denied, you don't own this calendar")]_vars

\* calendar 1 has just been deleted by its owner; the Event created through it persists
C29_Witness ==
    \E r \in Slots, e \in DOMAIN events :
        /\ tasks[r].op = "calDelete" /\ tasks[r].pc = "done" /\ tasks[r].resp.status = 200
        /\ tasks[r].cal = 1 /\ 1 \notin DOMAIN calendars
        /\ createdBy.event[e].calendar = 1
        /\ \A q \in Slots \ {r} : tasks[q].pc = "idle"


\* the access token was issued in a session that has since been logged out: a
\* logout of the refresh token signed with it (same identity, same instant) has
\* answered success
SessionLoggedOut(token) ==
    \E rt \in revoked :
        /\ rt.secret = "JWT_REFRESH_SECRET"
        /\ rt.id = token.id /\ rt.iat = token.iat

\* C30: once a logout has answered success, a protected request that carries the
\* access token of that session is answered 403 "Token has been revoked", while
\* the unexpired access token of a logged-in identity that has sent no logout
\* passes the gate.
C30_LogoutRevokesAccessToken ==
    [][\A r \in Slots :
          (Arrives(r, "gate") /\ tasks'[r].token.secret = "JWT_SECRET") =>
              /\ SessionLoggedOut(tasks'[r].token) =>
                    RefusedBy(r, 403, "Token has been revoked")
              /\ ((\A rt \in revoked : rt.id # tasks'[r].token.id)
                     /\ tasks'[r].token \notin blacklist
                     /\ now < tasks'[r].token.exp
                     /\ \E i \in DOMAIN users :
                           /\ users[i].id = tasks'[r].token.id
                           /\ users[i].refreshToken # NullToken) =>
                    tasks'[r].pc = "next"]_vars

=============================================================================
